---- MODULE Spec2Model ----
(***************************************************************************)
(* Model of the distributed build orchestration of pace:                   *)
(*   pace/dsl/dace/dace_config.py  (DaCeOrchestration, DaceConfig)         *)
(*   pace/dsl/dace/utils.py        (DaCeProgress)                          *)
(* The helpers of pace.dsl.dace.build (read_target_rank,                   *)
(* write_decomposition, set_distributed_caches) and the compile/load phase *)
(* are not part of the sources at hand; they follow the written            *)
(* specification (sections 4.2, 4.3, 5 and 7).                             *)
(*                                                                         *)
(* Python values are modelled as follows.                                  *)
(*   Optional[T]      a set with at most one element ({} is None)          *)
(*   str              a sequence of one-character strings where the code   *)
(*                    looks inside the string, a TLA+ string otherwise     *)
(*   object           a function from the names of the attributes that     *)
(*                    have been assigned so far to their values            *)
(***************************************************************************)
EXTENDS Integers, Sequences, FiniteSets, TLC

\* ------------------------------------------------------------------ bounds
\* Largest communicator of a run (processes are the ranks 0..MaxRanks-1).
MaxRanks == 4
\* Number of runs (restarts of all processes) that follow the first one.
MaxRestarts == 1
\* Number of DaceConfig constructions one process may perform.
MaxConstr == 2

\* Number of uses of the build-progress logger in one process.
MaxUses == 2
\* Largest reading of the clock.
MaxClock == 2

\* Number of calls of pace.util.global_config in one process.
MaxCalls == 4

\* Number of arrays in a graph handed to count_memory.
MaxArrays == 3

\* Number of edges that leave map exits in a graph handed to NaN_checker.
MaxExitEdges == 2

Procs == 0..(MaxRanks - 1)

\* ------------------------------------------------------------- python bits
\* Python's `sub in s` on strings.
Contains(s, sub) ==
    \E i \in 1..(Len(s) - Len(sub) + 1) : SubSeq(s, i, i + Len(sub) - 1) = sub

\* self.<name> = value
SetAttr(self, name, value) ==
    [a \in (DOMAIN self) \cup {name} |-> IF a = name THEN value ELSE self[a]]

HasAttr(self, name) == name \in DOMAIN self

\* A freshly allocated DaceConfig, before __init__ has assigned anything.
NewObject == [class |-> "DaceConfig"]

\* The one element of a non-empty Optional.
The(opt) == CHOOSE v \in opt : TRUE

\* -------------------------------------------------------- DaCeOrchestration
\* The enum: member name |-> value.
DaCeOrchestration == [Python |-> 0, Build |-> 1, BuildAndRun |-> 2, Run |-> 3]

MemberNames == DOMAIN DaCeOrchestration
Members == {DaCeOrchestration[n] : n \in MemberNames}

\* The name of a member, as str(member) prints it after "DaCeOrchestration.".
MemberName(v) == CHOOSE n \in MemberNames : DaCeOrchestration[n] = v

\* os.getenv(name, default) on the variable FV3_DACEMODE.
Getenv(environ, default) == IF environ = {} THEN default ELSE The(environ)

\* (Variant of EnumByName that falls back to Python on an unknown name.)
EnumByNameLenient(name) ==
    IF name \in MemberNames THEN {DaCeOrchestration[name]}
    ELSE {DaCeOrchestration["Python"]}

\* DaCeOrchestration[name]: the member, or a KeyError ({}).
EnumByName(name) ==
    IF name \in MemberNames THEN {DaCeOrchestration[name]} ELSE {}

\* Lines 35-38: the mode of the config; {} when the lookup raises KeyError.
ResolveOrchestration(orchestration, environ) ==
    IF orchestration = {} THEN EnumByName(Getenv(environ, "Python"))
    ELSE orchestration

\* ----------------------------------------------------------------- backends
BkDace == <<"g", "t", "c", ":", "d", "a", "c", "e">>
BkDaceGpu == <<"g", "t", "c", ":", "d", "a", "c", "e", ":", "g", "p", "u">>
BkNumpy == <<"g", "t", "c", ":", "n", "u", "m", "p", "y">>
BkCpuDefault == <<"c", "p", "u", "-", "d", "e", "f", "a", "u", "l", "t">>
StrDace == <<"d", "a", "c", "e">>
StrGpu == <<"g", "p", "u">>

\* ------------------------------------------------------------ communicator
\* The partitioner of a run with n ranks, and the decomposition signature
\* that read_target_rank and write_decomposition derive from it.
Partitioner(n) == [total_ranks |-> n]
Signature(partitioner) == partitioner.total_ranks
Sigs == 1..MaxRanks

\* The communicator rank p holds in a run of n ranks (None when n = 0).
Communicator(p, n) ==
    IF n = 0 THEN {}
    ELSE {[rank |-> p, size |-> n, partitioner |-> Partitioner(n)]}

\* ------------------------------------------------------------------- state
VARIABLES
    environ,        \* FV3_DACEMODE in the environment of the run: Optional[str]
    orchArg,        \* the orchestration argument of the run: Optional[member]
    backendArg,     \* the backend argument of the run
    commSize,       \* ranks of the run's communicator, 0 when none is passed
    restarts,       \* restarts of the whole run so far
    pc,             \* per process: where it stands
    config,         \* per process: the DaceConfig object under construction/built
    err,            \* per process: the exception of its last construction
    gtCache,        \* per process: process-wide gt4py cache location, Optional
    nConstr,        \* per process: DaceConfig constructions begun
    descriptor,     \* shared file .layout/decomposition.yml: signature -> Optional[rank]
    artifacts,      \* shared filesystem: cache directories holding the artifact
    built,          \* per process: outcome of its build phase
    writeLog,       \* history: descriptor writes of the current run
    sigWrites,      \* history: descriptor writes ever, per signature
    sawDescriptor,  \* history: per process, did its last read find an entry
    cacheSets,      \* history: per process, the calls of set_distributed_caches
    stdout,         \* the lines printed by DaCeProgress.log
    clock,          \* time.time()
    progress,       \* the DaCeProgress object of the current with-statement
    wpc,            \* where the with-statement stands
    inflight,       \* the exception the phase raised: Optional
    outcomes,       \* history: per finished with-statement, what the caller saw
    answers,        \* per process: what each query of its config returned
    rebuildEnv,     \* FV3_STENCIL_REBUILD_FLAG in the environment: Optional[str]
    BACKEND,        \* global_config._BACKEND: Optional[str]
    REBUILD,        \* global_config._REBUILD
    VALIDATE_ARGS,  \* global_config._VALIDATE_ARGS
    PARTITIONER,    \* global_config._PARTITIONER: Optional
    validateCache,  \* the lru_cache of get_validate_args: Optional[bool]
    gcPrinted,      \* lines printed by set_partitioner
    lastSet,        \* history: per field, the value of its latest setter call
    lastGot,        \* history: per field, what its latest getter call returned
    overwrote,      \* history: per field, did a later setter call change it
    gcCalls,        \* history: calls of pace.util.global_config so far
    sdfg,           \* the graph handed to count_memory
    detail_report,  \* the detail_report argument of count_memory
    allocations,    \* count_memory's allocations after its loop: Optional
    report,         \* the text count_memory returned, as its lines: Optional
    nanIn,          \* what the graph handed to NaN_checker was built from
    nanState,       \* the access nodes, check maps and edges of that graph
    nanChecks,      \* NaN_checker's list `checks`: Optional
    nanPrinted      \* the count NaN_checker printed: Optional

runVars == <<environ, orchArg, backendArg, commSize, restarts>>
procVars == <<pc, config, err, gtCache, nConstr, built, sawDescriptor, cacheSets>>
fsVars == <<descriptor, artifacts, writeLog, sigWrites>>
logVars == <<stdout, clock, progress, wpc, inflight, outcomes>>
queryVars == <<answers>>
globalVars == <<rebuildEnv, BACKEND, REBUILD, VALIDATE_ARGS, PARTITIONER,
                validateCache, gcPrinted, lastSet, lastGot, overwrote, gcCalls>>
memVars == <<sdfg, detail_report, allocations, report>>
nanVars == <<nanIn, nanState, nanChecks, nanPrinted>>
libVars == <<queryVars, globalVars, memVars, nanVars>>
vars == <<runVars, procVars, fsVars, logVars, libVars>>

\* Processes that exist in the current run.
Active == {p \in Procs : p < (IF commSize = 0 THEN 1 ELSE commSize)}

Terminal == {"ready", "ConfigError", "KeyError", "AttributeError"}

\* ------------------------------------------------- pace.dsl.dace.build (4.2, 4.3)
\* read_target_rank: the stored rank of the signature, else the caller's rank.
ReadTargetRank(rank, partitioner, desc) ==
    IF desc[Signature(partitioner)] # {} THEN The(desc[Signature(partitioner)])
    ELSE rank

\* write_decomposition: persist signature -> 0.
WriteDecomposition(partitioner, desc) ==
    [desc EXCEPT ![Signature(partitioner)] = {0}]

\* (Variant of SetDistributedCaches that leaves every rank its own directory.)
SetDistributedCachesLocal(self) ==
    [dir |-> self.my_rank, access |-> "rw"]

\* set_distributed_caches: own directory read-write for the compiling rank,
\* the compiling rank's directory read-only for every other rank.
SetDistributedCaches(self) ==
    IF self.my_rank = self.target_rank
    THEN [dir |-> self.my_rank, access |-> "rw"]
    ELSE [dir |-> self.target_rank, access |-> "ro"]

\* ------------------------------------------------------ DaceConfig.__init__
\* (Variant of NoCommunicatorRankInfo with a wrong target rank.)
NoCommunicatorRankInfoOne(self) ==
    SetAttr(SetAttr(SetAttr(self, "my_rank", 0), "rank_size", 1), "target_rank", 1)

\* Lines 63-65: no communicator.
NoCommunicatorRankInfo(self) ==
    SetAttr(SetAttr(SetAttr(self, "my_rank", 0), "rank_size", 1), "target_rank", 0)

\* (Variant of CommunicatorRankInfo that never consults the descriptor.)
CommunicatorRankInfoSelf(self, comm, desc) ==
    SetAttr(SetAttr(SetAttr(self, "my_rank", comm.rank), "rank_size", comm.size),
            "target_rank", comm.rank)

\* Lines 49-61: rank, size and target rank from the communicator.
CommunicatorRankInfo(self, comm, desc) ==
    SetAttr(SetAttr(SetAttr(self, "my_rank", comm.rank), "rank_size", comm.size),
            "target_rank", ReadTargetRank(comm.rank, comm.partitioner, desc))

\* Lines 48-65.
RankInfo(self, communicator, desc) ==
    IF communicator # {} THEN CommunicatorRankInfo(self, The(communicator), desc)
    ELSE NoCommunicatorRankInfo(self)

\* (Variant of CacheCalls that sets the caches of distributed runs only.)
CacheCallsDistributed(self) ==
    IF self.rank_size > 1 THEN <<SetDistributedCaches(self)>> ELSE <<>>

\* (Variant of CacheCalls that never sets the caches.)
CacheCallsNone(self) == <<>>

\* Line 67: the calls of set_distributed_caches one construction makes, in
\* order, each with the cache location it sets.
CacheCalls(self) == <<SetDistributedCaches(self)>>

\* (Variant of NeedsWrite without the rank test.)
NeedsWriteAnyRank(self) ==
    /\ \/ self._orchestrate = DaCeOrchestration["Build"]
       \/ self._orchestrate = DaCeOrchestration["BuildAndRun"]
    /\ self.rank_size > 1

\* (Variant of NeedsWrite without the size test.)
NeedsWriteAnySize(self) ==
    /\ \/ self._orchestrate = DaCeOrchestration["Build"]
       \/ self._orchestrate = DaCeOrchestration["BuildAndRun"]
    /\ self.my_rank = 0

\* Lines 69-76: does this construction write the decomposition descriptor.
NeedsWrite(self) ==
    /\ \/ self._orchestrate = DaCeOrchestration["Build"]
       \/ self._orchestrate = DaCeOrchestration["BuildAndRun"]
    /\ self.my_rank = 0
    /\ self.rank_size > 1

\* (Variant of BackendRejected that tests for a gpu backend.)
BackendRejectedGpu(self) ==
    /\ self._orchestrate # DaCeOrchestration["Python"]
    /\ ~Contains(self._backend, StrGpu)

\* Lines 79-82: the validation of mode against backend.
BackendRejected(self) ==
    /\ self._orchestrate # DaCeOrchestration["Python"]
    /\ ~Contains(self._backend, StrDace)

\* Lines 83-86: the RuntimeError, whose message ends with the backend.
BackendError(self) ==
    [type |-> "RuntimeError",
     text |-> "DaceConfig: orchestration can only be leverage on gtc:dace or gtc:dace:gpu not on ",
     backend |-> self._backend]

\* The KeyError of the enum lookup at line 36.
ModeError(name) == [type |-> "KeyError", text |-> name, backend |-> <<>>]

\* Lines 24-61/65: a process enters __init__, resolves the mode (or raises
\* KeyError), stores the backend and resolves rank, size and target rank,
\* reading the descriptor file when it has a communicator.
Enter(p) ==
    /\ nConstr[p] < MaxConstr
    /\ nConstr' = [nConstr EXCEPT ![p] = @ + 1]
    /\ LET mode == ResolveOrchestration(orchArg, environ)
           comm == Communicator(p, commSize)
       IN IF mode = {}
          THEN /\ pc' = [pc EXCEPT ![p] = "KeyError"]
               /\ config' = [config EXCEPT ![p] = NewObject]
               /\ err' = [err EXCEPT ![p] = {ModeError(Getenv(environ, "Python"))}]
               /\ UNCHANGED sawDescriptor
          ELSE /\ pc' = [pc EXCEPT ![p] = "resolved"]
               /\ config' = [config EXCEPT ![p] =
                    RankInfo(SetAttr(SetAttr(NewObject, "_orchestrate", The(mode)),
                                     "_backend", backendArg),
                             comm, descriptor)]
               /\ err' = [err EXCEPT ![p] = {}]
               /\ sawDescriptor' = [sawDescriptor EXCEPT ![p] =
                    comm # {} /\ descriptor[Signature(Partitioner(commSize))] # {}]
    /\ UNCHANGED <<libVars, runVars, fsVars, logVars, gtCache, built, cacheSets>>

\* The first construction of a process.
DaceConfigBegin(p) ==
    /\ p \in Active
    /\ pc[p] = "idle"
    /\ Enter(p)

\* A later construction in the same process.
DaceConfigAgain(p) ==
    /\ p \in Active
    /\ pc[p] \in Terminal
    /\ Enter(p)

\* The AttributeError of `communicator.partitioner` on None at line 77.
NoneError == [type |-> "AttributeError", text |-> "partitioner", backend |-> <<>>]

\* Lines 67-86: set the distributed caches, write the descriptor when this
\* construction has to, then validate the mode against the backend.
DaceConfigFinish(p) ==
    /\ pc[p] = "resolved"
    /\ LET self == config[p]
           calls == CacheCalls(self)
           comm == Communicator(p, commSize)
           writes == NeedsWrite(self) /\ comm # {}
       IN /\ gtCache' = [gtCache EXCEPT ![p] =
                IF calls = <<>> THEN @ ELSE {calls[Len(calls)]}]
          /\ cacheSets' = [cacheSets EXCEPT ![p] = @ \o
                [i \in 1..Len(calls) |->
                    [value |-> calls[i],
                     resolved |-> HasAttr(self, "target_rank"),
                     builds |-> IF built[p] = {} THEN 0 ELSE 1]]]
          /\ IF writes
             THEN LET part == The(comm).partitioner
                  IN /\ descriptor' = WriteDecomposition(part, descriptor)
                     /\ writeLog' = Append(writeLog,
                           [proc |-> p, rank |-> self.my_rank,
                            size |-> self.rank_size,
                            mode |-> self._orchestrate, sig |-> Signature(part)])
                     /\ sigWrites' = [sigWrites EXCEPT ![Signature(part)] = @ + 1]
             ELSE UNCHANGED <<descriptor, writeLog, sigWrites>>
          /\ IF NeedsWrite(self) /\ comm = {}
             THEN /\ pc' = [pc EXCEPT ![p] = "AttributeError"]
                  /\ err' = [err EXCEPT ![p] = {NoneError}]
             ELSE IF BackendRejected(self)
             THEN /\ pc' = [pc EXCEPT ![p] = "ConfigError"]
                  /\ err' = [err EXCEPT ![p] = {BackendError(self)}]
             ELSE /\ pc' = [pc EXCEPT ![p] = "ready"]
                  /\ UNCHANGED err
    /\ UNCHANGED <<libVars, runVars, logVars, config, nConstr, built, sawDescriptor, artifacts>>

\* ------------------------------------------------ the build phase (3, 4.3, 5, 7)
\* The phase that follows a successful construction consumes the process-wide
\* cache location: the compiling rank (read-write cache) compiles and saves,
\* every other rank and every rank in Run mode loads what its cache
\* location holds and fails when nothing is there.
BuildModes == {DaCeOrchestration["Build"], DaCeOrchestration["BuildAndRun"]}

CanBuild(p) == pc[p] = "ready" /\ built[p] = {} /\ gtCache[p] # {}

\* What a build phase leaves behind: its outcome and what it acted on.
BuildRecord(p, outcome) ==
    [outcome |-> outcome,
     mode |-> config[p]._orchestrate,
     my_rank |-> config[p].my_rank,
     target_rank |-> config[p].target_rank,
     cache |-> The(gtCache[p]),
     present |-> The(gtCache[p]).dir \in artifacts,
     saw |-> sawDescriptor[p],
     comm |-> commSize # 0]

\* Python mode runs directly; a rank that reuses another rank's build has
\* nothing to do in Build mode.
NothingToBuild(p) ==
    /\ CanBuild(p)
    /\ \/ config[p]._orchestrate = DaCeOrchestration["Python"]
       \/ /\ config[p]._orchestrate = DaCeOrchestration["Build"]
          /\ The(gtCache[p]).access = "ro"
    /\ built' = [built EXCEPT ![p] = {BuildRecord(p, "direct")}]
    /\ UNCHANGED <<libVars, runVars, fsVars, logVars, pc, config, err, gtCache, nConstr,
                   sawDescriptor, cacheSets>>

\* The compiling rank compiles and saves the artifact in its cache directory.
Compile(p) ==
    /\ CanBuild(p)
    /\ config[p]._orchestrate \in BuildModes
    /\ The(gtCache[p]).access = "rw"
    /\ built' = [built EXCEPT ![p] = {BuildRecord(p, "compiled")}]
    /\ artifacts' = artifacts \cup {The(gtCache[p]).dir}
    /\ UNCHANGED <<libVars, runVars, logVars, descriptor, writeLog, sigWrites, pc, config, err,
                   gtCache, nConstr, sawDescriptor, cacheSets>>

\* The compilation fails: fatal for the process, nothing is saved.
CompileFails(p) ==
    /\ CanBuild(p)
    /\ config[p]._orchestrate \in BuildModes
    /\ The(gtCache[p]).access = "rw"
    /\ built' = [built EXCEPT ![p] = {BuildRecord(p, "compile_failed")}]
    /\ pc' = [pc EXCEPT ![p] = "exited"]
    /\ UNCHANGED <<libVars, runVars, fsVars, logVars, config, err, gtCache, nConstr,
                   sawDescriptor, cacheSets>>

\* A rank loads the artifact of its cache location, and fails without it.
Load(p) ==
    /\ CanBuild(p)
    /\ \/ config[p]._orchestrate = DaCeOrchestration["Run"]
       \/ /\ config[p]._orchestrate = DaCeOrchestration["BuildAndRun"]
          /\ The(gtCache[p]).access = "ro"
    /\ IF The(gtCache[p]).dir \in artifacts
       THEN /\ built' = [built EXCEPT ![p] = {BuildRecord(p, "loaded")}]
            /\ UNCHANGED pc
       ELSE /\ built' = [built EXCEPT ![p] = {BuildRecord(p, "load_failed")}]
            /\ pc' = [pc EXCEPT ![p] = "exited"]
    /\ UNCHANGED <<libVars, runVars, fsVars, logVars, config, err, gtCache, nConstr,
                   sawDescriptor, cacheSets>>

\* ------------------------------------------------------------- DaCeProgress
\* DaceConfig.get_orchestrate
GetOrchestrate(self) == self._orchestrate

\* str() of an enum member.
StrMember(v) == <<"DaCeOrchestration.", MemberName(v)>>

\* DaCeProgress.default_prefix, and line 17: f"[{config.get_orchestrate()}]"
DefaultPrefix(cfg) == <<"[">> \o StrMember(GetOrchestrate(cfg)) \o <<"]">>

\* DaCeProgress.log: print(f"{prefix} {message}")
Log(prefix, message) == [prefix |-> prefix, sep |-> " ", message |-> message]

\* Line 29: f"{self.label}..."
EnterMessage(self) == [label |-> self.label, dots |-> "...", elapsed |-> {}, tail |-> ""]

\* Line 34: f"{self.label}...{elapsed}s."
ExitMessage(self, elapsed) ==
    [label |-> self.label, dots |-> "...", elapsed |-> {elapsed}, tail |-> "s."]

\* (Variant of ExitResult that swallows the exception of the phase.)
ExitResultTrue(self) == TRUE

\* Lines 32-34: __exit__ has no return statement, its result is None (falsy).
ExitResult(self) == FALSE

Labels == {"build", "load"}
Exceptions == {"RuntimeError", "ValueError"}

\* Lines 15-18: DaCeProgress(config, label) on the config of process 0.
ProgressNew(label) ==
    /\ wpc = "out"
    /\ pc[0] = "ready"
    /\ Len(outcomes) < MaxUses
    /\ progress' = {[prefix |-> DefaultPrefix(config[0]), label |-> label]}
    /\ wpc' = "made"
    /\ UNCHANGED <<libVars, runVars, procVars, fsVars, stdout, clock, inflight, outcomes>>

\* Lines 28-30: __enter__ prints the entry line and takes the start time.
ProgressEnter ==
    /\ wpc = "made"
    /\ stdout' = Append(stdout, Log(The(progress).prefix, EnterMessage(The(progress))))
    /\ progress' = {SetAttr(The(progress), "start", clock)}
    /\ wpc' = "entered"
    /\ UNCHANGED <<libVars, runVars, procVars, fsVars, clock, inflight, outcomes>>

\* Time passes.
Tick ==
    /\ clock < MaxClock
    /\ pc[0] = "ready"
    /\ clock' = clock + 1
    /\ UNCHANGED <<libVars, runVars, procVars, fsVars, stdout, progress, wpc, inflight, outcomes>>

\* The phase inside the with-statement ends normally.
PhaseReturns ==
    /\ wpc = "entered"
    /\ wpc' = "leaving"
    /\ inflight' = {}
    /\ UNCHANGED <<libVars, runVars, procVars, fsVars, stdout, clock, progress, outcomes>>

\* The phase inside the with-statement raises.
PhaseRaises(e) ==
    /\ wpc = "entered"
    /\ wpc' = "leaving"
    /\ inflight' = {e}
    /\ UNCHANGED <<libVars, runVars, procVars, fsVars, stdout, clock, progress, outcomes>>

\* Lines 32-34: __exit__ prints the exit line; the with-statement then
\* re-raises the exception of the phase unless __exit__ returned a true value.
ProgressExit ==
    /\ wpc = "leaving"
    /\ LET self == The(progress)
           elapsed == clock - self.start
       IN /\ stdout' = Append(stdout, Log(self.prefix, ExitMessage(self, elapsed)))
          /\ outcomes' = Append(outcomes,
                [label |-> self.label, start |-> self.start, end |-> clock,
                 phase |-> inflight,
                 caller |-> IF ExitResult(self) THEN {} ELSE inflight])
    /\ wpc' = "out"
    /\ progress' = {}
    /\ inflight' = {}
    /\ UNCHANGED <<libVars, runVars, procVars, fsVars, clock>>

\* ------------------------------------------------- DaceConfig: the queries
\* Reading self.<name>: the value, or an AttributeError when __init__ never
\* assigned the attribute.
GetAttr(self, name) ==
    IF HasAttr(self, name) THEN [raised |-> {}, value |-> {self[name]}]
    ELSE [raised |-> {"AttributeError"}, value |-> {}]

\* Lines 88-89.
IsDaceOrchestrated(self) ==
    LET a == GetAttr(self, "_orchestrate") IN
    [raised |-> a.raised,
     value |-> {v # DaCeOrchestration["Python"] : v \in a.value}]

\* Lines 91-92.
IsGpuBackend(self) ==
    LET a == GetAttr(self, "_backend") IN
    [raised |-> a.raised, value |-> {Contains(v, StrGpu) : v \in a.value}]

\* Lines 94-95.
GetBackend(self) == GetAttr(self, "_backend")

\* Lines 97-98, with the outcome of the attribute read.
GetOrchestrateCall(self) == GetAttr(self, "_orchestrate")

\* Lines 100-101.
GetCommunicator(self) == GetAttr(self, "_communicator")

Queries == {"is_dace_orchestrated", "is_gpu_backend", "get_backend",
            "get_orchestrate", "get_communicator"}

QueryInit == answers = [p \in Procs |-> [q \in Queries |-> {}]]

\* Process p calls query q on the config it constructed and keeps the outcome.
Ask(p, q, outcome) ==
    /\ pc[p] = "ready"
    /\ answers' = [answers EXCEPT ![p][q] = {outcome}]
    /\ UNCHANGED <<globalVars, memVars, nanVars, runVars, procVars, fsVars, logVars>>

\* ------------------------------------------------- pace.util.global_config
StrTrue == <<"T", "r", "u", "e">>
StrFalse == <<"F", "a", "l", "s", "e">>

\* str.title(): a cased character is upper case after an uncased one (or at
\* the start) and lower case after a cased one. The letters are those that
\* occur in the values of FV3_STENCIL_REBUILD_FLAG.
Title(s) ==
    LET LowerOf == [c \in {"T", "R", "U", "E", "F", "A", "L", "S"} |->
                       CASE c = "T" -> "t" [] c = "R" -> "r" [] c = "U" -> "u"
                         [] c = "E" -> "e" [] c = "F" -> "f" [] c = "A" -> "a"
                         [] c = "L" -> "l" [] c = "S" -> "s"]
        UpperOf == [c \in {"t", "r", "u", "e", "f", "a", "l", "s"} |->
                       CHOOSE u \in DOMAIN LowerOf : LowerOf[u] = c]
        IsCased(c) == c \in (DOMAIN LowerOf) \cup (DOMAIN UpperOf)
        ToUpper(c) == IF c \in DOMAIN UpperOf THEN UpperOf[c] ELSE c
        ToLower(c) == IF c \in DOMAIN LowerOf THEN LowerOf[c] ELSE c
    IN [i \in 1..Len(s) |->
           IF i = 1 \/ ~IsCased(s[i - 1]) THEN ToUpper(s[i]) ELSE ToLower(s[i])]

\* Lines 7-9.
getenv_bool(env, default) == Title(Getenv(env, default)) = StrTrue

\* functools.lru_cache on a function without arguments: the first call
\* computes and stores, every later call returns what is stored.
LruCall(cache, value) ==
    [cache |-> IF cache = {} THEN {value} ELSE cache,
     result |-> IF cache = {} THEN value ELSE The(cache)]

\* (Variant of set_partitioner_once that assigns whatever is already set.)
PartitionerOnceAlways(current, partitioner) == partitioner

\* Lines 66-67: the partitioner after set_partitioner_once(partitioner).
PartitionerOnce(current, partitioner) ==
    IF current = {} THEN partitioner ELSE current

\* Lines 44, 48, 49 and 71: the module after its import.
GlobalInit(env) ==
    /\ rebuildEnv = env
    /\ BACKEND = {}
    /\ REBUILD = getenv_bool(env, StrFalse)
    /\ VALIDATE_ARGS = TRUE
    /\ PARTITIONER = {}
    /\ validateCache = {}
    /\ gcPrinted = 0
    /\ gcCalls = 0
    /\ lastSet = [backend |-> {}, rebuild |-> {}, validate_args |-> {},
                  partitioner |-> {}]
    /\ lastGot = [backend |-> {}, rebuild |-> {}, validate_args |-> {},
                  partitioner |-> {}]
    /\ overwrote = [f \in {"backend", "rebuild", "validate_args", "partitioner"} |->
                        FALSE]

\* One more call of the module in this process; nothing outside it changes.
Called ==
    /\ gcCalls < MaxCalls
    /\ gcCalls' = gcCalls + 1
    /\ UNCHANGED <<queryVars, memVars, nanVars, runVars, procVars, fsVars, logVars>>

\* History: a setter call on a field that an earlier setter call had given a
\* value made the getter of the field return `after` instead of `before`.
Overwrites(field, before, after) ==
    [overwrote EXCEPT ![field] = @ \/ (lastSet[field] # {} /\ before # after)]

\* Lines 12-14.
set_backend(new_backend) ==
    /\ BACKEND' = {new_backend}
    /\ overwrote' = Overwrites("backend", BACKEND, {new_backend})
    /\ lastSet' = [lastSet EXCEPT !.backend = {new_backend}]
    /\ UNCHANGED <<rebuildEnv, REBUILD, VALIDATE_ARGS, PARTITIONER, validateCache,
                   gcPrinted, lastGot>>
    /\ Called

\* Lines 17-18.
get_backend ==
    /\ lastGot' = [lastGot EXCEPT !.backend =
                    {[result |-> BACKEND, given |-> lastSet.backend]}]
    /\ UNCHANGED <<rebuildEnv, BACKEND, REBUILD, VALIDATE_ARGS, PARTITIONER,
                   validateCache, gcPrinted, lastSet, overwrote>>
    /\ Called

\* Lines 21-23.
set_rebuild(flag) ==
    /\ REBUILD' = flag
    /\ overwrote' = Overwrites("rebuild", REBUILD, flag)
    /\ lastSet' = [lastSet EXCEPT !.rebuild = {flag}]
    /\ UNCHANGED <<rebuildEnv, BACKEND, VALIDATE_ARGS, PARTITIONER, validateCache,
                   gcPrinted, lastGot>>
    /\ Called

\* Lines 26-27.
get_rebuild ==
    /\ lastGot' = [lastGot EXCEPT !.rebuild =
                    {[result |-> REBUILD, given |-> lastSet.rebuild]}]
    /\ UNCHANGED <<rebuildEnv, BACKEND, REBUILD, VALIDATE_ARGS, PARTITIONER,
                   validateCache, gcPrinted, lastSet, overwrote>>
    /\ Called

\* Lines 30-32.
set_validate_args(new_validate_args) ==
    /\ VALIDATE_ARGS' = new_validate_args
    /\ overwrote' = Overwrites("validate_args",
                                LruCall(validateCache, VALIDATE_ARGS).result,
                                LruCall(validateCache, new_validate_args).result)
    /\ lastSet' = [lastSet EXCEPT !.validate_args = {new_validate_args}]
    /\ UNCHANGED <<rebuildEnv, BACKEND, REBUILD, PARTITIONER, validateCache,
                   gcPrinted, lastGot>>
    /\ Called

\* Lines 35-38.
get_validate_args ==
    LET call == LruCall(validateCache, VALIDATE_ARGS) IN
    /\ validateCache' = call.cache
    /\ lastGot' = [lastGot EXCEPT !.validate_args =
                    {[result |-> call.result, given |-> lastSet.validate_args]}]
    /\ UNCHANGED <<rebuildEnv, BACKEND, REBUILD, VALIDATE_ARGS, PARTITIONER,
                   gcPrinted, lastSet, overwrote>>
    /\ Called

\* Lines 52-54.
get_partitioner ==
    /\ lastGot' = [lastGot EXCEPT !.partitioner =
                    {[result |-> PARTITIONER, given |-> lastSet.partitioner]}]
    /\ UNCHANGED <<rebuildEnv, BACKEND, REBUILD, VALIDATE_ARGS, PARTITIONER,
                   validateCache, gcPrinted, lastSet, overwrote>>
    /\ Called

\* Lines 57-61.
set_partitioner(partitioner) ==
    /\ gcPrinted' = IF PARTITIONER # {} THEN gcPrinted + 1 ELSE gcPrinted
    /\ PARTITIONER' = partitioner
    /\ overwrote' = Overwrites("partitioner", PARTITIONER, partitioner)
    /\ lastSet' = [lastSet EXCEPT !.partitioner = {partitioner}]
    /\ UNCHANGED <<rebuildEnv, BACKEND, REBUILD, VALIDATE_ARGS, validateCache, lastGot>>
    /\ Called

\* Lines 64-67.
set_partitioner_once(partitioner) ==
    /\ PARTITIONER' = PartitionerOnce(PARTITIONER, partitioner)
    /\ overwrote' = Overwrites("partitioner", PARTITIONER, PARTITIONER')
    /\ lastSet' = [lastSet EXCEPT !.partitioner = {partitioner}]
    /\ UNCHANGED <<rebuildEnv, BACKEND, REBUILD, VALIDATE_ARGS, validateCache,
                   gcPrinted, lastGot>>
    /\ Called

\* --------------------------------------------- utils.py: is_ref, count_memory
\* A graph (SDFG) is modelled by what count_memory reads of it: its scopes
\* (the root SDFG 0 and an SDFG nested in one of its states), per scope the
\* arrays by name, and the access nodes, each in a state of its scope and
\* naming an array of that scope.
RootScope == 0
ParentScope(sd) == IF sd = RootScope THEN {} ELSE {sd - 1}

\* The members of StorageType, in the order of the enum, that the graphs use.
StorageType == <<"Default", "CPU_Heap", "GPU_Global">>

\* The descriptors of the arrays: 2 MB and 4 MB of float32.
Descriptors ==
    [total_size : {512 * 1024, 1024 * 1024}, dtype_bytes : {4},
     transient : BOOLEAN, storage : {"CPU_Heap", "GPU_Global"}]

\* The order in which arrays_recursive visits (scope, name): the root first.
ArrayOrder == <<<<0, "a">>, <<0, "b">>, <<1, "a">>, <<1, "b">>>>
ArraySlots == {ArrayOrder[i] : i \in 1..Len(ArrayOrder)}

EmptyGraph == [name |-> "sdfg", arrays |-> [sl \in ArraySlots |-> {}], nodes |-> {}]

\* The graphs of at most MaxArrays arrays.
Graphs ==
    {g \in [name : {"sdfg"},
            arrays : [ArraySlots -> {{}} \cup {{d} : d \in Descriptors}],
            nodes : SUBSET ArraySlots] :
        /\ Cardinality({sl \in ArraySlots : g.arrays[sl] # {}}) <= MaxArrays
        /\ \A sl \in g.nodes : g.arrays[sl] # {}}

\* sd or a scope nested, at any depth, in sd.
RECURSIVE Within(_, _)
Within(inner, sd) ==
    \/ inner = sd
    \/ \E parent \in ParentScope(inner) : Within(parent, sd)

\* sd.all_nodes_recursive(), the access nodes of it: (node, state.parent).
AllNodesRecursive(g, sd) ==
    {[data |-> sl[2], parent |-> sl[1]] : sl \in {n \in g.nodes : Within(n[1], sd)}}

\* Lines 37-47.
is_ref(g, sd, aname) ==
    \E node \in AllNodesRecursive(g, sd) : node.parent = sd /\ aname = node.data

\* sdfg.arrays_recursive(): (sd, aname, arr) in the order of enumeration.
ArraysRecursive(g) ==
    LET present == SelectSeq(ArrayOrder, LAMBDA sl : g.arrays[sl] # {})
    IN [i \in 1..Len(present) |->
           [sd |-> present[i][1], aname |-> present[i][2],
            arr |-> The(g.arrays[present[i]])]]

\* Lines 50-56 and 59-65.
ArrayReport(name, total_size_in_bytes, referenced, transient, top_level) ==
    [name |-> name, total_size_in_bytes |-> total_size_in_bytes,
     referenced |-> referenced, transient |-> transient, top_level |-> top_level]

StorageReport(name) ==
    [name |-> name, referenced_in_bytes |-> 0, unreferenced_in_bytes |-> 0,
     top_level_in_bytes |-> 0, details |-> <<>>]

\* Lines 69-71.
NewAllocations ==
    [st \in {StorageType[i] : i \in 1..Len(StorageType)} |-> StorageReport(st)]

\* (Variant of Branch that takes every array of a nested scope.)
BranchNestedAll(root, sd, arr) == IF sd # root THEN "nested" ELSE "top"

\* Lines 77 and 92: which branch of the loop body an array takes.
Branch(root, sd, arr) ==
    IF sd # root /\ arr.transient THEN "nested"
    ELSE IF sd = root THEN "top"
    ELSE "neither"

\* (Variant of AppendDetail that records each array twice.)
AppendDetailTwice(rep, detail) ==
    [rep EXCEPT !.details = Append(Append(@, detail), detail)]

\* Lines 78-86 and 93-101: details.append(ArrayReport(...)).
AppendDetail(rep, detail) == [rep EXCEPT !.details = Append(@, detail)]

\* (Variant of AddTopLevel that leaves the top-level bucket alone.)
AddTopLevelNothing(rep, size) == rep

\* Line 102.
AddTopLevel(rep, size) == [rep EXCEPT !.top_level_in_bytes = @ + size]

\* Lines 87-90 and 103-106.
AddByReference(rep, ref, size) ==
    IF ref THEN [rep EXCEPT !.referenced_in_bytes = @ + size]
    ELSE [rep EXCEPT !.unreferenced_in_bytes = @ + size]

\* Lines 74-106: the body of the loop for one array.
Visit(allocs, g, item) ==
    LET arr == item.arr
        array_size_in_bytes == arr.total_size * arr.dtype_bytes
        ref == is_ref(g, item.sd, item.aname)
        branch == Branch(RootScope, item.sd, arr)
        detail == ArrayReport(item.aname, array_size_in_bytes, ref, arr.transient,
                              branch = "top")
    IN CASE branch = "nested" ->
              [allocs EXCEPT ![arr.storage] =
                  AddByReference(AppendDetail(@, detail), ref, array_size_in_bytes)]
         [] branch = "top" ->
              [allocs EXCEPT ![arr.storage] =
                  AddByReference(AddTopLevel(AppendDetail(@, detail),
                                             array_size_in_bytes),
                                 ref, array_size_in_bytes)]
         [] OTHER -> allocs

\* Lines 73-106: the loop.
RECURSIVE VisitAll(_, _, _)
VisitAll(allocs, g, todo) ==
    IF todo = <<>> THEN allocs
    ELSE VisitAll(Visit(allocs, g, Head(todo)), g, Tail(todo))

\* bytes / (1024 * 1024) as a float: exact for these sizes, kept as a ratio.
InMb(bytes) == [num |-> bytes, den |-> 1024 * 1024]

\* f"{x:.2f}": x in hundredths, rounded to the nearest, a tie to the even one.
Format2f(x) ==
    LET q == (x.num * 100) \div x.den
        r == (x.num * 100) % x.den
    IN IF 2 * r > x.den \/ (2 * r = x.den /\ q % 2 = 1) THEN q + 1 ELSE q

\* One line of the report.
Line(kind, name, mb, ref, tr) ==
    [kind |-> kind, name |-> name, mb |-> mb, ref |-> ref, tr |-> tr]

\* (Variant of HasSection that prints the section of every storage class.)
HasSectionAlways(allocs) == TRUE

\* Line 113: a float is true when it is not 0.0.
HasSection(allocs) ==
    LET alloc_in_mb == InMb(allocs.referenced_in_bytes)
        toplvlalloc_in_mb == InMb(allocs.top_level_in_bytes)
    IN alloc_in_mb.num # 0 \/ toplvlalloc_in_mb.num > 0

\* Lines 110-131: what one storage class adds to the report.
Section(storage, allocs, detailed) ==
    IF HasSection(allocs)
    THEN <<Line("storage", storage, 0, FALSE, FALSE),
           Line("Alloc ref", storage, Format2f(InMb(allocs.referenced_in_bytes)),
                FALSE, FALSE),
           Line("Alloc unref", storage,
                Format2f(InMb(allocs.unreferenced_in_bytes)), FALSE, FALSE),
           Line("Top lvl alloc", storage,
                Format2f(InMb(allocs.top_level_in_bytes)), FALSE, FALSE)>>
         \o (IF detailed
             THEN <<Line("", storage, 0, FALSE, FALSE),
                    Line("header", storage, 0, FALSE, FALSE)>>
                  \o [i \in 1..Len(allocs.details) |->
                         LET detail == allocs.details[i]
                         IN Line("row", detail.name,
                                 Format2f(InMb(detail.total_size_in_bytes)),
                                 detail.referenced, detail.transient)]
             ELSE <<>>)
    ELSE <<>>

\* Lines 108-133: the report, storage class by storage class.
RECURSIVE Render(_, _, _)
Render(allocs, detailed, i) ==
    IF i > Len(StorageType) THEN <<>>
    ELSE Section(StorageType[i], allocs[StorageType[i]], detailed)
         \o Render(allocs, detailed, i + 1)

MemInit(g, detailed) ==
    /\ sdfg = g
    /\ detail_report = detailed
    /\ allocations = {}
    /\ report = {}

\* Lines 68-133.
count_memory ==
    /\ report = {}
    /\ LET allocs == VisitAll(NewAllocations, sdfg, ArraysRecursive(sdfg))
       IN /\ allocations' = {allocs}
          /\ report' = {<<Line("title", sdfg.name, 0, FALSE, FALSE)>>
                        \o Render(allocs, detail_report, 1)}
    /\ UNCHANGED <<sdfg, detail_report>>
    /\ UNCHANGED <<queryVars, globalVars, nanVars, runVars, procVars, fsVars, logVars>>

\* ------------------------------------------------------ utils.py: NaN_checker
\* The graph handed to NaN_checker holds two maps, each with a tasklet that
\* writes through the map exit, two access nodes, a node that is not an
\* access node, and two consumers of access nodes. Map 1 is at the top of
\* the root state; `nest` says where map 2 is:
\*   "top"          in the root state, in no scope
\*   "scope"        in the root state, in the scope of map 1
\*   "nsdfg"        in a nested SDFG whose node is in no scope
\*   "nsdfg_scope"  in a nested SDFG whose node is in the scope of map 1
\* A node is <<kind, number>>: <<"MapExit", 1>>, <<"AccessNode", 2>>, ...
MapIds == <<1, 2>>

StrDiss == <<"d", "i", "s", "s", "_", "e", "s", "t", "d">>

\* The names of the arrays: q and g are plain, v is a view, the last two
\* contain "diss_estd".
NanNames == <<<<"q">>, <<"g">>, <<"v">>, StrDiss, <<"x", "_">> \o StrDiss>>

\* sdfg.arrays of the SDFGs: the descriptor of each array name.
NanArrays(name) ==
    CASE name = <<"v">> -> [view |-> TRUE, storage |-> "CPU_Heap"]
      [] name = <<"g">> -> [view |-> FALSE, storage |-> "GPU_Global"]
      [] OTHER -> [view |-> FALSE, storage |-> "CPU_Heap"]

\* An expression of a subset: a literal, or int_floor(a, b) left symbolic.
Lit(n) == [op |-> "lit", a |-> n, b |-> 1]
IntFloor(a, b) == [op |-> "int_floor", a |-> a, b |-> b]

\* Lines 197-198: evaluate(expr).
evaluate(expr) ==
    IF expr.op = "int_floor" THEN Lit(expr.a \div expr.b) ELSE expr

Memlet(data, subset, dynamic) ==
    [data |-> data, subset |-> subset, dynamic |-> dynamic]

Edge(src, src_conn, dst, dst_conn, data) ==
    [src |-> src, src_conn |-> src_conn, dst |-> dst, dst_conn |-> dst_conn,
     data |-> data]

\* What the graph is built from: where map 2 is, the edges that leave the
\* map exits in the order they were added (map, destination, and whether
\* the tasklet's write through this connector is dynamic), the array of
\* each access node, and whether the access node is read by the consumers.
\* The destination 0 is a node that is not an access node.
NanInputs ==
    {in \in [nest : {"top", "scope", "nsdfg", "nsdfg_scope"},
             outs : UNION {[1..n -> [map : {1, 2}, dst : {0, 1, 2},
                                     dynamic : BOOLEAN]] : n \in 0..MaxExitEdges},
             data : [{1, 2} -> {NanNames[i] : i \in 1..Len(NanNames)}],
             read : [{1, 2} -> BOOLEAN]] :
        /\ in.data[1] # <<"g">>
        /\ in.data[2] \in {<<"q">>, <<"g">>}}

EmptyInput ==
    [nest |-> "top", outs |-> <<>>, data |-> [a \in {1, 2} |-> <<"q">>],
     read |-> [a \in {1, 2} |-> FALSE]]

\* The edges of the graph: per exit edge the tasklet's write into the map
\* exit and the edge that leaves the exit, then the reads of the consumers.
RECURSIVE ExitPairs(_, _)
ExitPairs(in, i) ==
    IF i > Len(in.outs) THEN <<>>
    ELSE LET out == in.outs[i]
             dst == IF out.dst = 0 THEN <<"Other", 0>> ELSE <<"AccessNode", out.dst>>
             data == IF out.dst = 0 THEN <<>> ELSE in.data[out.dst]
             subset == <<[begin |-> Lit(0), end |-> IntFloor(8 * i + 7, 2),
                          step |-> Lit(1)]>>
         IN <<Edge(<<"Tasklet", out.map>>, <<"__out", i>>, <<"MapExit", out.map>>,
                   <<"IN", i>>, Memlet(data, subset, out.dynamic)),
              Edge(<<"MapExit", out.map>>, <<"OUT", i>>, dst, <<"", 0>>,
                   Memlet(data, subset, FALSE))>>
            \o ExitPairs(in, i + 1)

RECURSIVE Reads(_, _)
Reads(in, a) ==
    IF a > 2 THEN <<>>
    ELSE (IF in.read[a]
          THEN <<Edge(<<"AccessNode", a>>, <<"", 0>>, <<"Consumer", 1>>, <<"IN", a>>,
                      Memlet(in.data[a], <<>>, FALSE)),
                 Edge(<<"AccessNode", a>>, <<"", 0>>, <<"Consumer", 2>>, <<"__in", a>>,
                      Memlet(in.data[a], <<>>, FALSE))>>
          ELSE <<>>)
         \o Reads(in, a + 1)

\* The state(s) of the graph: access node |-> its array, inserted map entry
\* |-> the map, and the edges in the order they were added.
BuildState(in) ==
    [access |-> [n \in {<<"AccessNode", 1>>, <<"AccessNode", 2>>} |-> in.data[n[2]]],
     maps |-> <<>>,
     edges |-> ExitPairs(in, 1) \o Reads(in, 1)]

\* Map m is in a state of the nested SDFG.
NestedIn(in, m) == m = 2 /\ in.nest \in {"nsdfg", "nsdfg_scope"}

\* Line 165: get_parent_map(state, me), None as {}: the map in whose scope
\* the map entry lies in its state, else, for a map of the nested SDFG, the
\* map in whose scope the node of the nested SDFG lies.
get_parent_map(in, m) ==
    LET entry_node == IF m = 2 /\ in.nest = "scope" THEN {1} ELSE {}
        nsdfg_entry_node == IF m = 2 /\ in.nest = "nsdfg_scope" THEN {1} ELSE {}
    IN IF entry_node # {} THEN entry_node
       ELSE IF NestedIn(in, m) THEN nsdfg_entry_node
       ELSE {}

\* (Variant of IsTopMap that takes every map.)
IsTopMapAll(in, m) == TRUE

\* Lines 164-166.
IsTopMap(in, m) == get_parent_map(in, m) = {}

\* state.out_edges(n).
OutEdges(st, n) == SelectSeq(st.edges, LAMBDA e : e.src = n)

\* Lines 176-178: state.memlet_path(e)[0], the edge the path of e starts
\* with: through the map exits back to the node that writes.
RECURSIVE MemletPathHead(_, _)
MemletPathHead(st, e) ==
    IF e.src[1] # "MapExit" THEN e
    ELSE LET inner == SelectSeq(st.edges,
                        LAMBDA x : /\ x.dst = e.src
                                   /\ x.dst_conn = <<"IN", e.src_conn[2]>>)
         IN IF inner = <<>> THEN e ELSE MemletPathHead(st, inner[1])

\* Lines 171-179: the three reasons to skip an edge to an access node.
Skipped(st, e) ==
    \/ NanArrays(st.access[e.dst]).view
    \/ Contains(st.access[e.dst], StrDiss)
    \/ MemletPathHead(st, e).data.dynamic

\* Lines 168-181 for one top map: its checks, (state, node, e).
ChecksOfMap(in, st, m) ==
    LET es == SelectSeq(OutEdges(st, <<"MapExit", m>>),
                        LAMBDA e : e.dst \in DOMAIN st.access /\ ~Skipped(st, e))
    IN [i \in 1..Len(es) |->
           [state |-> IF NestedIn(in, m) THEN "nested" ELSE "root",
            node |-> es[i].dst, e |-> es[i]]]

\* Lines 159-181: the list `checks`.
RECURSIVE CollectChecks(_, _, _)
CollectChecks(in, st, i) ==
    IF i > Len(MapIds) THEN <<>>
    ELSE (IF IsTopMap(in, MapIds[i]) THEN ChecksOfMap(in, st, MapIds[i]) ELSE <<>>)
         \o CollectChecks(in, st, i + 1)

\* (Variant of MoveOutEdges that leaves the edges where they are.)
MoveOutEdgesNot(edges, node, newnode) == edges

\* Lines 186-188: every edge that leaves node is removed and added again,
\* leaving newnode.
MoveOutEdges(edges, node, newnode) ==
    LET moved == SelectSeq(edges, LAMBDA oe : oe.src = node)
    IN SelectSeq(edges, LAMBDA oe : oe.src # node)
       \o [i \in 1..Len(moved) |-> [moved[i] EXCEPT !.src = newnode]]

\* Lines 201-206.
ScheduleOf(inparr) ==
    IF inparr.storage = "GPU_Global" \/ inparr.storage = "GPU_Shared"
    THEN "GPU_Device" ELSE "Default"

\* Lines 208-212.
RangesOf(e) ==
    [i \in 1..Len(e.data.subset) |->
        [index |-> i - 1,
         range |-> <<evaluate(e.data.subset[i].begin), evaluate(e.data.subset[i].end),
                     evaluate(e.data.subset[i].step)>>]]

\* Lines 213-230: state.add_mapped_tasklet with external edges between the
\* given input node and output node; k numbers the nodes it creates.
AddMappedTasklet(st, k, name, ranges, schedule, input_node, output_node, data) ==
    LET entry == <<"NanEntry", k>>
        tasklet == <<"NanTasklet", k>>
        exit == <<"NanExit", k>>
    IN [st EXCEPT
           !.maps = Append(@, [name |-> name, entry |-> entry, exit |-> exit,
                               tasklet |-> tasklet, ranges |-> ranges,
                               schedule |-> schedule]),
           !.edges = @ \o
               <<Edge(entry, <<"OUT", data>>, tasklet, <<"__inp", 0>>,
                      Memlet(data, <<>>, FALSE)),
                 Edge(tasklet, <<"__out", 0>>, exit, <<"IN", data>>,
                      Memlet(data, <<>>, TRUE)),
                 Edge(input_node, <<"", 0>>, entry, <<"IN", data>>,
                      Memlet(data, <<>>, FALSE)),
                 Edge(exit, <<"OUT", data>>, output_node, <<"", 0>>,
                      Memlet(data, <<>>, TRUE))>>]

\* Lines 183-230: the body of the second loop for the k-th check.
InsertCheck(st, k, check) ==
    LET node == check.node
        newnode == <<"Copy", k>>
        copied == [st EXCEPT
                      !.access = [n \in (DOMAIN @) \cup {newnode} |->
                                     IF n = newnode THEN @[node] ELSE @[n]],
                      !.edges = MoveOutEdges(@, node, newnode)]
        inparr == NanArrays(copied.access[newnode])
    IN AddMappedTasklet(copied, k, "nancheck", RangesOf(check.e), ScheduleOf(inparr),
                        node, newnode, copied.access[newnode])

\* Lines 182-230: the second loop.
RECURSIVE InsertChecks(_, _, _)
InsertChecks(st, checks, k) ==
    IF k > Len(checks) THEN st
    ELSE InsertChecks(InsertCheck(st, k, checks[k]), checks, k + 1)

NanInit(in) ==
    /\ nanIn = in
    /\ nanState = BuildState(in)
    /\ nanChecks = {}
    /\ nanPrinted = {}

\* Lines 140-231.
NaN_checker ==
    /\ nanChecks = {}
    /\ LET checks == CollectChecks(nanIn, nanState, 1)
       IN /\ nanChecks' = {checks}
          /\ nanState' = InsertChecks(nanState, checks, 1)
          /\ nanPrinted' = {Len(checks)}
    /\ UNCHANGED nanIn
    /\ UNCHANGED <<queryVars, globalVars, memVars, runVars, procVars, fsVars, logVars>>

\* ---------------------------------------------------------------- the runs
\* The arguments a run may be started with.
RunConfig(e, o, b, n) == [environ |-> e, orchArg |-> o, backendArg |-> b, commSize |-> n]

ProcInit ==
    /\ pc = [p \in Procs |-> "idle"]
    /\ config = [p \in Procs |-> NewObject]
    /\ err = [p \in Procs |-> {}]
    /\ gtCache = [p \in Procs |-> {}]
    /\ nConstr = [p \in Procs |-> 0]
    /\ built = [p \in Procs |-> {}]
    /\ sawDescriptor = [p \in Procs |-> FALSE]
    /\ cacheSets = [p \in Procs |-> <<>>]

\* All processes of the run are started again: process state is fresh, the
\* shared filesystem is kept.
Restart(rc) ==
    /\ restarts < MaxRestarts
    /\ \A p \in Active : pc[p] \in Terminal \cup {"exited"}
    /\ restarts' = restarts + 1
    /\ environ' = rc.environ
    /\ orchArg' = rc.orchArg
    /\ backendArg' = rc.backendArg
    /\ commSize' = rc.commSize
    /\ pc' = [p \in Procs |-> "idle"]
    /\ config' = [p \in Procs |-> NewObject]
    /\ err' = [p \in Procs |-> {}]
    /\ gtCache' = [p \in Procs |-> {}]
    /\ nConstr' = [p \in Procs |-> 0]
    /\ built' = [p \in Procs |-> {}]
    /\ sawDescriptor' = [p \in Procs |-> FALSE]
    /\ cacheSets' = [p \in Procs |-> <<>>]
    /\ writeLog' = <<>>
    /\ UNCHANGED <<libVars, descriptor, artifacts, sigWrites, logVars>>

LogInit ==
    /\ stdout = <<>>
    /\ clock = 0
    /\ progress = {}
    /\ wpc = "out"
    /\ inflight = {}
    /\ outcomes = <<>>

FsInit ==
    /\ descriptor = [s \in Sigs |-> {}]
    /\ artifacts = {}
    /\ writeLog = <<>>
    /\ sigWrites = [s \in Sigs |-> 0]

RunInit(rc) ==
    /\ restarts = 0
    /\ environ = rc.environ
    /\ orchArg = rc.orchArg
    /\ backendArg = rc.backendArg
    /\ commSize = rc.commSize

\* The library pieces no process of the run has used yet.
LibInit ==
    QueryInit /\ GlobalInit({}) /\ MemInit(EmptyGraph, FALSE) /\ NanInit(EmptyInput)

\* ---- the distributed run: every rank constructs its config once, the
\* ---- constructions interleave freely, the run may be restarted.
EnvValues == {{}, {"Python"}, {"Build"}, {"BuildAndRun"}, {"Run"}, {"Direct"}}
OrchArgs == {{}} \cup {{m} : m \in Members}
Backends == {BkDace, BkDaceGpu, BkNumpy, BkCpuDefault}
CommSizes == {0, 1, 2, MaxRanks}

RunConfigs ==
    {rc \in {RunConfig(e, o, b, n) : e \in {{}, {"BuildAndRun"}, {"Direct"}},
                                     o \in OrchArgs,
                                     b \in Backends,
                                     n \in CommSizes} :
        rc.orchArg = {} \/ rc.environ = {}}

Init == ProcInit /\ FsInit /\ LogInit /\ LibInit /\ \E rc \in RunConfigs : RunInit(rc)

Begin == \E p \in Procs : DaceConfigBegin(p)
Finish == \E p \in Procs : DaceConfigFinish(p)
NewRun == \E rc \in RunConfigs : Restart(rc)

Next == Begin \/ Finish \/ NewRun

Spec == Init /\ [][Next]_vars

\* ---- the processes of a small run: one or two ranks, every combination of
\* ---- arguments, later constructions in the same process, the build phase.
ProcConfigs ==
    {rc \in {RunConfig(e, o, b, n) : e \in EnvValues, o \in OrchArgs,
                                     b \in {BkDace, BkDaceGpu, BkCpuDefault},
                                     n \in {0, 1, 2}} :
        rc.orchArg = {} \/ rc.environ \in {{}, {"Direct"}}}

ProcInit2 == ProcInit /\ FsInit /\ LogInit /\ LibInit /\ \E rc \in ProcConfigs : RunInit(rc)

Again == \E p \in Procs : DaceConfigAgain(p)
Direct == \E p \in Procs : NothingToBuild(p)
Compiles == \E p \in Procs : Compile(p)
CompileFailure == \E p \in Procs : CompileFails(p)
Loads == \E p \in Procs : Load(p)
NewProcRun == \E rc \in ProcConfigs : Restart(rc)

ProcNext ==
    Begin \/ Again \/ Finish \/ Direct \/ Compiles \/ CompileFailure \/ Loads
    \/ NewProcRun

SpecProc == ProcInit2 /\ [][ProcNext]_vars

\* ---- the build-progress logger around the phases of one process.
LogConfigs == {RunConfig({}, {m}, BkDace, 0) : m \in Members}

LogSpecInit == ProcInit /\ FsInit /\ LogInit /\ LibInit /\ \E rc \in LogConfigs : RunInit(rc)

NewProgress == \E label \in Labels : ProgressNew(label)
Raises == \E e \in Exceptions : PhaseRaises(e)

LogNext ==
    DaceConfigBegin(0) \/ DaceConfigFinish(0) \/ NewProgress \/ ProgressEnter
    \/ Tick \/ PhaseReturns \/ Raises \/ ProgressExit

SpecLog == LogSpecInit /\ [][LogNext]_vars

\* ---- one process constructs its config and queries it.
QueryConfigs ==
    {rc \in {RunConfig(e, o, b, n) : e \in {{}, {"Run"}}, o \in OrchArgs,
                                     b \in {BkDace, BkDaceGpu, BkNumpy},
                                     n \in {0, 1}} :
        rc.orchArg = {} \/ rc.environ = {}}

QuerySpecInit ==
    ProcInit /\ FsInit /\ LogInit /\ LibInit /\ \E rc \in QueryConfigs : RunInit(rc)

QueryNext ==
    \/ DaceConfigBegin(0)
    \/ DaceConfigFinish(0)
    \/ Ask(0, "is_dace_orchestrated", IsDaceOrchestrated(config[0]))
    \/ Ask(0, "is_gpu_backend", IsGpuBackend(config[0]))
    \/ Ask(0, "get_backend", GetBackend(config[0]))
    \/ Ask(0, "get_orchestrate", GetOrchestrateCall(config[0]))
    \/ Ask(0, "get_communicator", GetCommunicator(config[0]))

SpecQuery == QuerySpecInit /\ [][QueryNext]_vars

\* ---- the calls of pace.util.global_config in one process, in any order.
GlobalPartitioners == {{}, {Partitioner(1)}, {Partitioner(2)}}

GlobalSpecInit ==
    /\ ProcInit /\ FsInit /\ LogInit /\ QueryInit /\ MemInit(EmptyGraph, FALSE)
    /\ NanInit(EmptyInput)
    /\ RunInit(RunConfig({}, {}, BkNumpy, 0))
    /\ \E env \in {{}, {StrTrue}, {<<"t", "r", "u", "e">>}, {<<"T", "R", "U", "E">>},
                     {StrFalse}, {<<"1">>}} : GlobalInit(env)

SetPartitionerOnce == \E part \in GlobalPartitioners : set_partitioner_once(part)

GlobalNext ==
    \/ \E b \in {"numpy", "gt:gpu"} : set_backend(b)
    \/ get_backend
    \/ \E flag \in BOOLEAN : set_rebuild(flag)
    \/ get_rebuild
    \/ \E flag \in BOOLEAN : set_validate_args(flag)
    \/ get_validate_args
    \/ \E part \in GlobalPartitioners : set_partitioner(part)
    \/ get_partitioner
    \/ SetPartitionerOnce

SpecGlobal == GlobalSpecInit /\ [][GlobalNext]_vars

\* ---- count_memory on every graph of at most MaxArrays arrays.
MemSpecInit ==
    /\ ProcInit /\ FsInit /\ LogInit /\ QueryInit /\ GlobalInit({})
    /\ NanInit(EmptyInput)
    /\ RunInit(RunConfig({}, {}, BkNumpy, 0))
    /\ \E g \in Graphs : \E detailed \in BOOLEAN : MemInit(g, detailed)

SpecMem == MemSpecInit /\ [][count_memory]_vars

\* ---- NaN_checker on every graph of at most MaxExitEdges exit edges.
NanSpecInit ==
    /\ ProcInit /\ FsInit /\ LogInit /\ QueryInit /\ GlobalInit({})
    /\ MemInit(EmptyGraph, FALSE)
    /\ RunInit(RunConfig({}, {}, BkNumpy, 0))
    /\ \E in \in NanInputs : NanInit(in)

SpecNaN == NanSpecInit /\ [][NaN_checker]_vars

\* ================================================================== claims
\* A construction of process p has ended, with its mode resolved.
Constructed(p) == pc[p] \in {"ready", "ConfigError", "exited"}
Succeeded(p) == pc[p] \in {"ready", "exited"}

\* The backends that can be orchestrated, listed by hand.
Capable == {BkDace, BkDaceGpu}

\* The mode each value of FV3_DACEMODE names, listed by hand.
NamedMode(e) ==
    CASE e = {} -> 0
      [] e = {"Python"} -> 0
      [] e = {"Build"} -> 1
      [] e = {"BuildAndRun"} -> 2
      [] e = {"Run"} -> 3
Recognized == {{}, {"Python"}, {"Build"}, {"BuildAndRun"}, {"Run"}}

\* C1: a construction whose resolved mode is not Python and whose backend is
\* not orchestration-capable ends with the RuntimeError that names the
\* backend; every other construction with a resolved mode succeeds.
C1_RejectsExactlyIncapable ==
    \A p \in Procs :
        Constructed(p) =>
            IF config[p]._orchestrate # 0 /\ backendArg \notin Capable
            THEN /\ pc[p] = "ConfigError"
                 /\ err[p] # {}
                 /\ The(err[p]).type = "RuntimeError"
                 /\ The(err[p]).backend = backendArg
            ELSE Succeeded(p) /\ err[p] = {}

C1_Witness ==
    /\ pc[0] = "ConfigError"
    /\ backendArg = BkCpuDefault
    /\ config[0]._orchestrate = 1

\* Every rank of the run has finished constructing its config in mode m.
AllReadyIn(m) ==
    \A p \in Active : pc[p] = "ready" /\ config[p]._orchestrate = m

\* C2 (as claimed): in a run of 4 ranks in BuildAndRun mode, once every rank
\* has constructed its config, exactly one descriptor write has occurred, by
\* rank 0, and ranks 1, 2 and 3 have all resolved target rank 0.
C2_Original ==
    (commSize = 4 /\ AllReadyIn(2)) =>
        /\ Len(writeLog) = 1
        /\ writeLog[1].proc = 0
        /\ \A p \in 1..3 : config[p].target_rank = 0

\* C2 (amended): in a run of several ranks in BuildAndRun mode, once every
\* rank has constructed its config, exactly one descriptor write has
\* occurred, by rank 0; a rank other than 0 has resolved target rank 0 when
\* its read found the entry of the decomposition, and its own rank when its
\* read came before the entry existed.
C2_OneWriteTargetByReadOrder ==
    (commSize > 1 /\ AllReadyIn(2)) =>
        /\ Len(writeLog) = 1
        /\ writeLog[1].proc = 0
        /\ writeLog[1].rank = 0
        /\ \A p \in Active \ {0} :
              config[p].target_rank = IF sawDescriptor[p] THEN 0 ELSE p

C2_Witness ==
    /\ commSize = 4
    /\ restarts = 0
    /\ AllReadyIn(2)
    /\ \A p \in 1..3 : config[p].target_rank = 0

\* C3: every descriptor write is made by rank 0 of a run with more than one
\* rank whose mode is Build or BuildAndRun; no entry exists for a
\* single-rank decomposition.
C3_WriteOnlyRankZeroBuild ==
    /\ \A i \in 1..Len(writeLog) :
          /\ writeLog[i].proc = 0
          /\ writeLog[i].rank = 0
          /\ writeLog[i].size > 1
          /\ writeLog[i].size = commSize
          /\ writeLog[i].mode \in {1, 2}
    /\ \A p \in Active :
          (Constructed(p) /\ (p # 0 \/ config[p]._orchestrate \in {0, 3}))
              => \A i \in 1..Len(writeLog) : writeLog[i].proc # p
    /\ descriptor[1] = {}

C3_Witness ==
    /\ Len(writeLog) = 1
    /\ writeLog[1].mode = 1
    /\ commSize = 2

\* C4: a construction with total rank count 1 (no communicator, or one of
\* size 1) has designated compiling rank 0, its own rank, and writes no
\* descriptor, in every mode and whatever the descriptor already holds.
C4_SingleRankSelfNoWrite ==
    \A p \in Procs :
        (commSize \in {0, 1} /\ Constructed(p)) =>
            /\ p = 0
            /\ config[p].rank_size = 1
            /\ config[p].my_rank = 0
            /\ config[p].target_rank = 0
            /\ writeLog = <<>>
            /\ descriptor[1] = {}

C4_Witness ==
    /\ commSize = 1
    /\ pc[0] = "ready"
    /\ config[0]._orchestrate = 2
    /\ descriptor[2] # {}

\* C5 (as claimed): with the mode argument omitted, the mode is Python when
\* FV3_DACEMODE is unset, the named mode when it names one, and Python when
\* it holds an unrecognized value; the construction does not fail for it.
C5_Original ==
    \A p \in Procs :
        (orchArg = {} /\ pc[p] \in Terminal \cup {"exited"}) =>
            /\ pc[p] # "KeyError"
            /\ HasAttr(config[p], "_orchestrate")
            /\ config[p]._orchestrate =
                  (IF environ \in Recognized THEN NamedMode(environ) ELSE 0)

\* C5 (amended): with the mode argument omitted, the mode is Python when
\* FV3_DACEMODE is unset and the named mode when it names one; when it
\* holds an unrecognized value the construction fails with KeyError before
\* it has assigned anything, set the cache location or written the
\* descriptor.
C5_EnvModeOrKeyError ==
    \A p \in Procs :
        (orchArg = {} /\ pc[p] \in Terminal \cup {"exited"}) =>
            IF environ \in Recognized
            THEN /\ pc[p] # "KeyError"
                 /\ config[p]._orchestrate = NamedMode(environ)
            ELSE /\ pc[p] = "KeyError"
                 /\ The(err[p]).type = "KeyError"
                 /\ config[p] = NewObject
                 /\ gtCache[p] = {}
                 /\ writeLog = <<>>

C5_Witness ==
    /\ orchArg = {}
    /\ environ = {"Direct"}
    /\ pc[0] = "KeyError"

\* C6: once a construction has ended, the cache location of the process is
\* set: its own directory, read-write, when its rank is the designated
\* compiling rank, and otherwise the compiling rank's directory, read-only.
\* No rank other than the designated one holds write access.
C6_CacheFollowsTarget ==
    \A p \in Procs :
        Constructed(p) =>
            /\ gtCache[p] # {}
            /\ IF config[p].my_rank = config[p].target_rank
               THEN The(gtCache[p]) = [dir |-> config[p].my_rank, access |-> "rw"]
               ELSE The(gtCache[p]) = [dir |-> config[p].target_rank, access |-> "ro"]
            /\ (The(gtCache[p]).access = "rw" => config[p].my_rank = config[p].target_rank)

C6_Witness ==
    /\ pc[1] = "ready"
    /\ config[1].target_rank = 0
    /\ The(gtCache[1]) = [dir |-> 0, access |-> "ro"]
    /\ pc[0] = "ready"
    /\ The(gtCache[0]) = [dir |-> 0, access |-> "rw"]

\* C7 (as claimed): within one process the cache location is set exactly
\* once (never a second time), after the target rank has been resolved and
\* before any compilation or load, for any sequence of constructions and
\* build phases.
C7_Original ==
    \A p \in Procs :
        /\ Len(cacheSets[p]) <= 1
        /\ \A i \in 1..Len(cacheSets[p]) :
              cacheSets[p][i].resolved /\ cacheSets[p][i].builds = 0

\* The constructions of p that have passed line 67.
PastLine67(p) ==
    IF pc[p] \in {"KeyError", "idle"} THEN 0
    ELSE IF pc[p] = "resolved" THEN nConstr[p] - 1
    ELSE nConstr[p]

\* C7 (amended): every construction that resolves its mode sets the cache
\* location exactly once, after it has resolved the target rank; the first
\* construction of a process does so before any compilation or load, and
\* no build phase runs before the location is set. A later construction in
\* the same process sets it again.
C7_SetOncePerConstruction ==
    \A p \in Procs :
        /\ Len(cacheSets[p]) = PastLine67(p)
        /\ \A i \in 1..Len(cacheSets[p]) : cacheSets[p][i].resolved
        /\ (cacheSets[p] # <<>> => cacheSets[p][1].builds = 0)
        /\ (built[p] # {} => cacheSets[p] # <<>>)
        /\ (cacheSets[p] # <<>> =>
              gtCache[p] = {cacheSets[p][Len(cacheSets[p])].value})

C7_Witness ==
    /\ Len(cacheSets[1]) = 2
    /\ cacheSets[1][1].value # cacheSets[1][2].value
    /\ cacheSets[1][2].builds = 1

\* C8 (as claimed): a rank that is not the designated compiling rank never
\* compiles and fails when the artifact is missing; a rank in Run mode never
\* compiles, and a missing descriptor or a missing artifact in that mode
\* makes the rank fail.
C8_Original ==
    \A p \in Procs :
        built[p] # {} =>
            LET b == The(built[p])
            IN /\ (b.my_rank # b.target_rank => b.outcome # "compiled")
               /\ (b.mode = 3 => b.outcome # "compiled")
               /\ ((b.mode = 3 /\ b.comm /\ (~b.saw \/ ~b.present))
                      => b.outcome = "load_failed")

\* C8 (amended): a rank whose designated compiling rank is another rank
\* never compiles, and a rank in Run mode never compiles; either fails when
\* the artifact is missing from its cache location and loads it otherwise.
\* A missing descriptor is no failure: the rank is then its own compiling
\* rank and uses its own cache directory.
C8_NoLocalSubstitute ==
    \A p \in Procs :
        built[p] # {} =>
            LET b == The(built[p])
            IN /\ (b.outcome \in {"compiled", "compile_failed"} =>
                      /\ b.my_rank = b.target_rank
                      /\ b.mode \in {1, 2}
                      /\ b.cache = [dir |-> b.my_rank, access |-> "rw"])
               /\ ((b.mode = 3 \/ (b.mode = 2 /\ b.my_rank # b.target_rank)) =>
                      b.outcome = IF b.present THEN "loaded" ELSE "load_failed")
               /\ (b.outcome = "compiled" => b.cache.dir \in artifacts)
               /\ ((b.comm /\ ~b.saw) =>
                      b.cache = [dir |-> b.my_rank, access |-> "rw"])

C8_Witness ==
    /\ built[1] # {}
    /\ The(built[1]).target_rank = 0
    /\ The(built[1]).mode = 2
    /\ The(built[1]).outcome = "load_failed"

\* C9 (as claimed): for a given decomposition signature the descriptor is
\* written at most once over all runs.
C9_Original == \A s \in Sigs : sigWrites[s] <= 1

\* C9 (amended): the descriptor is written by rank 0 only, at most once in
\* a run in which every rank constructs its config once, and only for a
\* decomposition of several ranks; every write stores the entry
\* signature -> 0, so an entry never changes once it exists. A later
\* build-mode run of the same decomposition writes the file again.
C9_OneWritePerRunSameEntry ==
    /\ [](/\ Len(writeLog) <= 1
          /\ \A i \in 1..Len(writeLog) : writeLog[i].proc = 0
          /\ \A s \in Sigs :
                /\ descriptor[s] \subseteq {0}
                /\ sigWrites[s] <= restarts + 1
                /\ (sigWrites[s] > 0 <=> descriptor[s] # {})
          /\ descriptor[1] = {})
    /\ [][\A s \in Sigs : descriptor[s] # {} => descriptor'[s] = descriptor[s]]_vars

C9_Witness == sigWrites[2] = 2 /\ restarts = 1

\* The name each mode is printed with, listed by hand.
PrintedMode(o) ==
    CASE o = {0} -> "Python"
      [] o = {1} -> "Build"
      [] o = {2} -> "BuildAndRun"
      [] o = {3} -> "Run"

ExpectedPrefix == <<"[", "DaCeOrchestration.", PrintedMode(orchArg), "]">>

\* C10: every use of the logger prints the entry line `[<mode>] <label>...`
\* before the phase starts and exactly one exit line with the same prefix
\* and label, carrying exit time - start time, after the phase has ended,
\* also when the phase raised; the caller sees exactly what the phase did.
C10_EntryExitAndPropagation ==
    /\ Len(stdout) = 2 * Len(outcomes) + (IF wpc \in {"entered", "leaving"} THEN 1 ELSE 0)
    /\ \A i \in 1..Len(outcomes) :
          /\ stdout[2 * i - 1] =
                [prefix |-> ExpectedPrefix, sep |-> " ",
                 message |-> [label |-> outcomes[i].label, dots |-> "...",
                              elapsed |-> {}, tail |-> ""]]
          /\ stdout[2 * i] =
                [prefix |-> ExpectedPrefix, sep |-> " ",
                 message |-> [label |-> outcomes[i].label, dots |-> "...",
                              elapsed |-> {outcomes[i].end - outcomes[i].start},
                              tail |-> "s."]]
          /\ outcomes[i].end >= outcomes[i].start
          /\ outcomes[i].caller = outcomes[i].phase
    /\ wpc \in {"entered", "leaving"} =>
          /\ stdout[Len(stdout)].prefix = ExpectedPrefix
          /\ stdout[Len(stdout)].message.label = The(progress).label
          /\ stdout[Len(stdout)].message.elapsed = {}

C10_Witness ==
    /\ Len(outcomes) = 2
    /\ outcomes[1].phase = {"ValueError"}
    /\ outcomes[1].caller = {"ValueError"}
    /\ outcomes[2].phase = {}
    /\ outcomes[2].end > outcomes[2].start

\* C15 (as claimed): each process-wide configuration field is set at most
\* once and is read-only afterward: after a setter call has given a field a
\* value, no later setter call changes the value its getter returns.
C15_Original ==
    \A f \in {"backend", "rebuild", "validate_args", "partitioner"} : ~overwrote[f]

\* C15 (amended): only set_partitioner_once keeps a value that is already
\* there: it sets the partitioner when there is none and leaves a partitioner
\* that is set as it is. set_backend and set_rebuild replace the value on
\* every call, so get_backend and get_rebuild return what the latest setter
\* call was given; before any set_partitioner call get_partitioner returns
\* none.
C15_OnlyPartitionerOnceKeeps ==
    /\ [](/\ \A g \in lastGot.backend : g.given # {} => g.result = g.given
          /\ \A g \in lastGot.rebuild :
                g.result = (IF g.given = {} THEN getenv_bool(rebuildEnv, StrFalse)
                            ELSE The(g.given))
          /\ \A g \in lastGot.partitioner : g.given = {} => g.result = {})
    /\ [][SetPartitionerOnce =>
            IF PARTITIONER # {} THEN PARTITIONER' = PARTITIONER
            ELSE PARTITIONER' = The(lastSet'.partitioner)]_vars

\* set_partitioner_once was last called with another partitioner than the
\* one that is set and kept it, while a second set_backend replaced the
\* backend.
C15_Witness ==
    /\ PARTITIONER = {Partitioner(1)}
    /\ lastSet.partitioner = {{Partitioner(2)}}
    /\ ~overwrote["partitioner"]
    /\ overwrote["backend"]

\* C18 (as claimed): a construction that fails with the configuration error
\* has written no descriptor and has not set the process-wide cache
\* location.
C18_AllOrNothing ==
    \A p \in Procs :
        pc[p] = "ConfigError" =>
            /\ gtCache[p] = {}
            /\ cacheSets[p] = <<>>
            /\ \A i \in 1..Len(writeLog) : writeLog[i].proc # p

\* C19 (as claimed): get_validate_args returns the value given to the most
\* recent set_validate_args call, or True when there was none, also when
\* get_validate_args had been called before that set.
C19_ReturnsLatestSet ==
    \A g \in lastGot.validate_args :
        g.result = (IF g.given = {} THEN TRUE ELSE The(g.given))

\* C20 (as claimed): on a successfully constructed config every query
\* returns a value without error: get_backend the backend given,
\* get_orchestrate the resolved mode, is_dace_orchestrated whether the mode
\* is not Python, get_communicator the communicator passed (or none).
C20_QueriesReflectInputs ==
    \A p \in Procs :
        Succeeded(p) =>
            /\ \A q \in Queries : \A a \in answers[p][q] : a.raised = {}
            /\ \A a \in answers[p]["get_backend"] : a.value = {backendArg}
            /\ \A a \in answers[p]["get_orchestrate"] :
                  a.value = ResolveOrchestration(orchArg, environ)
            /\ \A a \in answers[p]["is_dace_orchestrated"] :
                  a.value = {ResolveOrchestration(orchArg, environ) # {0}}
            /\ \A a \in answers[p]["get_communicator"] :
                  a.value = {Communicator(p, commSize)}

\* ---- the graph handed to count_memory, read by hand.
Present == {sl \in ArraySlots : sdfg.arrays[sl] # {}}
Desc(sl) == The(sdfg.arrays[sl])
Bytes(sl) == Desc(sl).total_size * Desc(sl).dtype_bytes
InClass(st) == {sl \in Present : Desc(sl).storage = st}
Classes == {"Default", "CPU_Heap", "GPU_Global"}
OneMb == 1048576

\* An access node of the array's own scope names the array.
Referenced(sl) == sl \in sdfg.nodes

\* The arrays count_memory accounts for: those of the root, and the
\* transient ones of nested scopes.
Accounted == {sl \in Present : sl[1] = 0 \/ Desc(sl).transient}

RECURSIVE SumBytes(_)
SumBytes(slots) ==
    IF slots = {} THEN 0
    ELSE LET sl == CHOOSE x \in slots : TRUE
         IN Bytes(sl) + SumBytes(slots \ {sl})

Counted == allocations # {}
Alloc(st) == The(allocations)[st]

\* C11 (as claimed): per storage class, referenced plus unreferenced bytes
\* equal the bytes of the transient arrays of the class; non-transient
\* arrays add to neither bucket.
C11_Original ==
    Counted =>
        \A st \in Classes :
            Alloc(st).referenced_in_bytes + Alloc(st).unreferenced_in_bytes
                = SumBytes({sl \in InClass(st) : Desc(sl).transient})

\* C11 (amended): per storage class, referenced plus unreferenced bytes
\* equal the bytes of the arrays of the class that are owned by the root
\* (transient or not) or are transient arrays of a nested scope;
\* non-transient arrays of nested scopes add to neither bucket.
C11_AdditivityRootAndNestedTransient ==
    Counted =>
        \A st \in Classes :
            Alloc(st).referenced_in_bytes + Alloc(st).unreferenced_in_bytes
                = SumBytes(InClass(st) \cap Accounted)

\* One storage class holds a non-transient root array, a transient nested
\* array and a non-transient nested array, and has been counted.
C11_Witness ==
    /\ Counted
    /\ \E st \in Classes :
          /\ <<0, "a">> \in InClass(st) /\ ~Desc(<<0, "a">>).transient
          /\ <<1, "a">> \in InClass(st) /\ Desc(<<1, "a">>).transient
          /\ <<1, "b">> \in InClass(st) /\ ~Desc(<<1, "b">>).transient
          /\ Alloc(st).referenced_in_bytes + Alloc(st).unreferenced_in_bytes
                = Bytes(<<0, "a">>) + Bytes(<<1, "a">>)

\* The detail rows of storage class st that stand for the array in slot sl.
RowsOf(st, sl) ==
    {i \in 1..Len(Alloc(st).details) :
        /\ Alloc(st).details[i].name = sl[2]
        /\ Alloc(st).details[i].top_level = (sl[1] = 0)}

\* C12 (as claimed): every enumerated array, at any depth and transient or
\* not, has exactly one detail row, in the bucket of its own storage class.
C12_Original ==
    Counted =>
        \A sl \in Present : \A st \in Classes :
            Cardinality(RowsOf(st, sl)) = (IF st = Desc(sl).storage THEN 1 ELSE 0)

\* C12 (amended): every enumerated array that is owned by the root, or is
\* transient, has exactly one detail row, in the bucket of its own storage
\* class, carrying its size and its transient flag; a non-transient array
\* of a nested scope has no row in any bucket; no bucket holds other rows.
C12_OneRowUnlessNestedNonTransient ==
    Counted =>
        /\ \A sl \in Present : \A st \in Classes :
              /\ Cardinality(RowsOf(st, sl))
                    = (IF st = Desc(sl).storage /\ sl \in Accounted THEN 1 ELSE 0)
              /\ \A i \in RowsOf(st, sl) :
                    /\ Alloc(st).details[i].total_size_in_bytes = Bytes(sl)
                    /\ Alloc(st).details[i].transient = Desc(sl).transient
        /\ \A st \in Classes :
              Len(Alloc(st).details) = Cardinality(InClass(st) \cap Accounted)

\* A non-transient nested array was enumerated and has no row, next to a
\* root array and a transient nested array of its storage class that have.
C12_Witness ==
    /\ Counted
    /\ <<1, "b">> \in Present /\ ~Desc(<<1, "b">>).transient
    /\ <<0, "b">> \in Present /\ <<1, "a">> \in Present /\ Desc(<<1, "a">>).transient
    /\ Desc(<<0, "b">>).storage = "GPU_Global"
    /\ Desc(<<1, "a">>).storage = "GPU_Global"
    /\ Desc(<<1, "b">>).storage = "GPU_Global"
    /\ Len(Alloc("GPU_Global").details) = 2

\* C13: per storage class the top-level bucket holds the bytes of the root
\* arrays; every root array and every transient nested array adds its bytes
\* to the referenced bucket when an access node of its own scope names it
\* and to the unreferenced bucket otherwise, nested arrays adding nothing to
\* top-level. One root array of S bytes and no nested transient: top-level
\* = S = referenced + unreferenced. Only a nested referenced 4 MB and a
\* nested unreferenced 2 MB transient: referenced 4 MB, unreferenced 2 MB,
\* top-level 0.
C13_RootAndNestedBuckets ==
    Counted =>
        /\ \A st \in Classes :
              /\ Alloc(st).top_level_in_bytes
                    = SumBytes({sl \in InClass(st) : sl[1] = 0})
              /\ Alloc(st).referenced_in_bytes
                    = SumBytes({sl \in InClass(st) \cap Accounted : Referenced(sl)})
              /\ Alloc(st).unreferenced_in_bytes
                    = SumBytes({sl \in InClass(st) \cap Accounted : ~Referenced(sl)})
        /\ \A sl \in Present :
              (Present \cap Accounted = {sl} /\ sl[1] = 0) =>
                  LET a == Alloc(Desc(sl).storage)
                  IN /\ a.top_level_in_bytes = Bytes(sl)
                     /\ a.referenced_in_bytes + a.unreferenced_in_bytes = Bytes(sl)
        /\ \A st \in Classes :
              (/\ Present = {<<1, "a">>, <<1, "b">>}
               /\ InClass(st) = Present
               /\ Desc(<<1, "a">>).transient /\ Desc(<<1, "b">>).transient
               /\ Referenced(<<1, "a">>) /\ ~Referenced(<<1, "b">>)
               /\ Bytes(<<1, "a">>) = 4 * OneMb /\ Bytes(<<1, "b">>) = 2 * OneMb) =>
                  /\ Alloc(st).referenced_in_bytes = 4 * OneMb
                  /\ Alloc(st).unreferenced_in_bytes = 2 * OneMb
                  /\ Alloc(st).top_level_in_bytes = 0

\* A root array shares its storage class with a nested referenced transient
\* of 4 MB and a nested unreferenced transient of 2 MB, and has been counted.
C13_Witness ==
    /\ Counted
    /\ Present = {<<0, "a">>, <<1, "a">>, <<1, "b">>}
    /\ InClass("CPU_Heap") = Present
    /\ Desc(<<1, "a">>).transient /\ Desc(<<1, "b">>).transient
    /\ Referenced(<<1, "a">>) /\ ~Referenced(<<1, "b">>) /\ Referenced(<<0, "a">>)
    /\ Bytes(<<1, "a">>) = 4 * OneMb /\ Bytes(<<1, "b">>) = 2 * OneMb
    /\ Alloc("CPU_Heap").top_level_in_bytes = Bytes(<<0, "a">>)
    /\ Alloc("CPU_Heap").unreferenced_in_bytes = 2 * OneMb

\* ---- the returned text, read by hand.
Text == The(report)
SectionStart(st) ==
    {i \in 1..Len(Text) : Text[i].kind = "storage" /\ Text[i].name = st}

\* The rows of the section of st: the row lines after its first line and
\* before the first line of the next section.
SectionRows(st) ==
    LET start == CHOOSE i \in SectionStart(st) : TRUE
        mine(j) == /\ j > start
                   /\ Text[j].kind = "row"
                   /\ \A k \in (start + 1)..j : Text[k].kind # "storage"
    IN SelectSeq([j \in 1..Len(Text) |-> IF mine(j) THEN {Text[j]} ELSE {}],
                 LAMBDA x : x # {})

\* The arrays recorded for st in the order of enumeration, as rows.
RecordedOrder(st) ==
    SelectSeq(ArrayOrder, LAMBDA sl : sl \in InClass(st) \cap Accounted)
ExpectedRows(st) ==
    [i \in 1..Len(RecordedOrder(st)) |->
        LET sl == RecordedOrder(st)[i]
        IN {[kind |-> "row", name |-> sl[2], mb |-> (Bytes(sl) \div OneMb) * 100,
             ref |-> Referenced(sl), tr |-> Desc(sl).transient]}]

\* C17: the text has a section for a storage class exactly when the class's
\* referenced bytes or top-level bytes are nonzero; with detail_report the
\* section holds one row per array recorded for the class, in the order of
\* enumeration, and without it no rows.
C17_SectionsAndRows ==
    report # {} =>
        \A st \in Classes :
            /\ Cardinality(SectionStart(st)) =
                  (IF Alloc(st).referenced_in_bytes # 0
                      \/ Alloc(st).top_level_in_bytes # 0 THEN 1 ELSE 0)
            /\ SectionStart(st) # {} =>
                  SectionRows(st) = (IF detail_report THEN ExpectedRows(st) ELSE <<>>)
            /\ SectionStart(st) = {} =>
                  \A i \in 1..Len(Text) : Text[i].name # st

\* A detailed report with a section of two rows for one storage class and
\* no section for the other, which holds only an unreferenced nested
\* transient.
C17_Witness ==
    /\ report # {}
    /\ detail_report
    /\ Len(RecordedOrder("CPU_Heap")) = 2
    /\ SectionStart("CPU_Heap") # {}
    /\ Len(SectionRows("CPU_Heap")) = 2
    /\ InClass("GPU_Global") = {<<1, "b">>}
    /\ Alloc("GPU_Global").unreferenced_in_bytes # 0
    /\ SectionStart("GPU_Global") = {}

\* The unreferenced transient arrays of a storage class, read from the graph.
DeadTransients(st) ==
    {sl \in InClass(st) : Desc(sl).transient /\ ~Referenced(sl)}

\* C21 (as claimed): every storage class that holds at least one unreferenced
\* transient array, and so has nonzero unreferenced bytes, has a section in
\* the text returned by count_memory, also when the class has zero
\* referenced bytes and zero top-level bytes.
C21_DeadTransientsShown ==
    report # {} =>
        \A st \in Classes :
            (DeadTransients(st) # {} /\ Alloc(st).unreferenced_in_bytes # 0)
                => SectionStart(st) # {}

\* ---- the graph handed to NaN_checker, read by hand.
\* The maps with no enclosing map: map 1, and map 2 unless it lies in the
\* scope of map 1, directly or through its nested SDFG.
TopLevel == IF nanIn.nest \in {"top", "nsdfg"} THEN {1, 2} ELSE {1}

\* The arrays that are views, and those designated for diagnostic output.
ViewNames == {<<"v">>}
DiagnosticNames ==
    {<<"d", "i", "s", "s", "_", "e", "s", "t", "d">>,
     <<"x", "_", "d", "i", "s", "s", "_", "e", "s", "t", "d">>}

\* The exit edges that are to be instrumented, by their position.
EligibleOuts ==
    {i \in 1..Len(nanIn.outs) :
        /\ nanIn.outs[i].map \in TopLevel
        /\ nanIn.outs[i].dst # 0
        /\ nanIn.data[nanIn.outs[i].dst] \notin ViewNames \cup DiagnosticNames
        /\ ~nanIn.outs[i].dynamic}

NanMaps == {nanState.maps[k].name : k \in 1..Len(nanState.maps)}

\* C14: the count NaN_checker prints is the number of edges that leave the
\* exit of a map with no enclosing map and end at an access node, less
\* those that end at a view, at a diagnostic-output array or whose write is
\* dynamic; it is the number of check maps inserted; maps inside another
\* map add nothing. Two top-level maps with one plain output each give 2,
\* only excluded edges give 0.
C14_CountsEligibleEdges ==
    nanPrinted # {} =>
        /\ nanPrinted = {Cardinality(EligibleOuts)}
        /\ Len(nanState.maps) = Cardinality(EligibleOuts)
        /\ NanMaps \subseteq {"nancheck"}

\* Map 1 and, in a nested SDFG outside every scope, map 2, each with one
\* plain output to an access node of its own, gave 2.
C14_Witness ==
    /\ nanPrinted = {2}
    /\ nanIn.nest = "nsdfg"
    /\ Len(nanIn.outs) = 2
    /\ nanIn.outs[1].map = 1 /\ nanIn.outs[2].map = 2
    /\ nanIn.outs[1].dst = 1 /\ nanIn.outs[2].dst = 2

\* The original graph, the edges that enter a node, and the checks of one
\* access node in their order.
Before == BuildState(nanIn)
InEdges(st, n) == SelectSeq(st.edges, LAMBDA e : e.dst = n)
Instrumented == {The(nanChecks)[k].node : k \in 1..Len(The(nanChecks))}
ChecksAt(node) ==
    SelectSeq([k \in 1..Len(The(nanChecks)) |-> k],
              LAMBDA k : The(nanChecks)[k].node = node)
Redirected(node, copy) ==
    LET outs == OutEdges(Before, node)
    IN [i \in 1..Len(outs) |->
           [src |-> copy, src_conn |-> outs[i].src_conn, dst |-> outs[i].dst,
            dst_conn |-> outs[i].dst_conn, data |-> outs[i].data]]
Targets(edges) == {edges[i].dst : i \in 1..Len(edges)}

====
